---- MODULE Spec2Model ----
(***************************************************************************)
(* Overwitch command-line launcher (src/main-cli.c): option parsing and    *)
(* validation in main, the single-device and fleet orchestrators           *)
(* run_single and run_all, the worker threads they create, and the         *)
(* asynchronous signal_handler that walks the global instance table.       *)
(***************************************************************************)
EXTENDS Integers, Sequences, FiniteSets, Bags, TLC

(***************************************************************************)
(* Bounds of the exploration.  The command-line study (SpecCli) explores   *)
(* MaxArgs options against CliDevices devices and CliSignals signals; the  *)
(* orchestration study (Spec) explores RunArgs options against MaxDevices  *)
(* devices and MaxSignals signals.                                         *)
(***************************************************************************)
MaxArgs == 3
CliDevices == 1
CliSignals == 1
RunArgs == 1
MaxDevices == 2
MaxSignals == 2

(***************************************************************************)
(* Program constants.                                                      *)
(***************************************************************************)
DEFAULT_QUALITY == 2
DEFAULT_BLOCKS == 24
DEFAULT_PRIORITY == -1
EXIT_SUCCESS == 0
EXIT_FAILURE == 1
OW_OK == 0
OW_GENERIC_ERROR == 1
OW_USB_ERROR == 2
ERANGE == 34
\* high word of LONG_MAX, whose low word reads -1 as an int
LONG_MAX_HI == 2147483647

\* Error codes the device layer can report.
OwErrors == {OW_GENERIC_ERROR, OW_USB_ERROR}

(***************************************************************************)
(* Option arguments.  An optarg string is described by what strtol makes   *)
(* of it: whether it starts with a number (digits), whether characters     *)
(* follow the number (rest), whether the number leaves the range of long   *)
(* (over), and otherwise its 64-bit value as a signed high word hi and the *)
(* low 32 bits lo read as an int, i.e. value = hi * 2^32 + (lo mod 2^32).  *)
(***************************************************************************)
Num(h, l) == [digits |-> TRUE, rest |-> FALSE, over |-> "no", hi |-> h, lo |-> l]
Str_empty == [digits |-> FALSE, rest |-> FALSE, over |-> "no", hi |-> 0, lo |-> 0]
Str_3x == [digits |-> TRUE, rest |-> TRUE, over |-> "no", hi |-> 0, lo |-> 3]
Str_huge == [digits |-> TRUE, rest |-> FALSE, over |-> "max", hi |-> 0, lo |-> 0]
\* "-1", "3", "100" and "4294967297" = 2^32 + 1
NumericOptArgs == {Num(-1, -1), Num(0, 3), Num(0, 100), Num(1, 1)}
OptArgs == NumericOptArgs \cup {Str_empty, Str_3x, Str_huge}
\* the one argument the orchestration study gives
RunOptArgs == {Num(0, 3)}
\* "0", "1", "5" for the device number
DeviceNumArgs == {Num(0, 0), Num(0, 1), Num(0, 5)}
DeviceNames == {"dev_a", "dev_b"}

(***************************************************************************)
(* strtol (optarg, &endstr, 10): the converted long, whether endstr moved  *)
(* off optarg, whether it stopped at the terminating NUL, and errno after  *)
(* the call (set to ERANGE on overflow, otherwise left as it was).         *)
(***************************************************************************)
strtol(optarg, err) ==
  IF ~optarg.digits
    THEN [hi |-> 0, lo |-> 0, moved |-> FALSE, nul |-> ~optarg.rest,
          errno |-> err]
  ELSE IF optarg.over = "max"   \* LONG_MAX
    THEN [hi |-> LONG_MAX_HI, lo |-> -1, moved |-> TRUE, nul |-> ~optarg.rest,
          errno |-> ERANGE]
  ELSE [hi |-> optarg.hi, lo |-> optarg.lo, moved |-> TRUE,
        nul |-> ~optarg.rest, errno |-> err]

\* (int) of a long keeps the low 32 bits.
IntCast(l) == l.lo

\* errno || endstr == optarg || *endstr != '\0' || v < lo || v > hi
Rejected(conv, v, lo, hi) ==
  conv.errno # 0 \/ ~conv.moved \/ ~conv.nul \/ v < lo \/ v > hi

ParseQuality(optarg, err) ==
  LET conv == strtol(optarg, err)
      v == IntCast(conv)
  IN IF Rejected(conv, v, 0, 4) THEN DEFAULT_QUALITY ELSE v

ParseBlocks(optarg, err) ==
  LET conv == strtol(optarg, err)
      v == IntCast(conv)
  IN IF Rejected(conv, v, 2, 32) THEN DEFAULT_BLOCKS ELSE v

ParsePriority(optarg, err) ==
  LET conv == strtol(optarg, err)
      v == IntCast(conv)
  IN IF Rejected(conv, v, 0, 99) THEN -1 ELSE v

(***************************************************************************)
(* What main does once getopt_long has returned -1.                        *)
(***************************************************************************)
\* variants used to test the properties below
AfterGetopt_AnySelection(e, l, b, p, n, d) ==
  IF e > 0 THEN "usage"
  ELSE IF l # 0 THEN "list"
  ELSE IF b > 1 THEN "blocks"
  ELSE IF p > 1 THEN "priority"
  ELSE IF n + d = 0 THEN "run_all"
  ELSE "run_single"

AfterGetopt_NoDuplicateCheck(e, l, b, p, n, d) ==
  IF e > 0 THEN "usage"
  ELSE IF l # 0 THEN "list"
  ELSE IF n + d = 0 THEN "run_all"
  ELSE IF n + d = 1 THEN "run_single"
  ELSE "device"

AfterGetopt_SelectionAsFlags(e, l, b, p, n, d) ==
  IF e > 0 THEN "usage"
  ELSE IF l # 0 THEN "list"
  ELSE IF b > 1 THEN "blocks"
  ELSE IF p > 1 THEN "priority"
  ELSE IF n = 0 /\ d = 0 THEN "run_all"
  ELSE IF n = 0 \/ d = 0 THEN "run_single"
  ELSE "device"

AfterGetopt(e, l, b, p, n, d) ==
  IF e > 0 THEN "usage"
  ELSE IF l # 0 THEN "list"
  ELSE IF b > 1 THEN "blocks"
  ELSE IF p > 1 THEN "priority"
  ELSE IF n + d = 0 THEN "run_all"
  ELSE IF n + d = 1 THEN "run_single"
  ELSE "device"

(***************************************************************************)
(* Device Selector: the device that ow_get_usb_device_from_device_attrs    *)
(* resolves in the attached list `world` (a sequence of device names), as  *)
(* a 1-based position, or 0 when nothing matches.                          *)
(***************************************************************************)
FirstNamed(world, name) ==
  LET hits == {k \in 1..Len(world) : world[k] = name}
  IN IF hits = {} THEN 0 ELSE CHOOSE k \in hits : \A j \in hits : k <= j

ow_get_usb_device_from_device_attrs(world, num, name) ==
  IF name # "NULL" THEN FirstNamed(world, name)
  ELSE IF num >= 0 /\ num < Len(world) THEN num + 1
  ELSE 0

RECURSIVE SeqsUpTo(_, _)
SeqsUpTo(S, n) ==
  IF n = 0 THEN {<<>>}
  ELSE LET shorter == SeqsUpTo(S, n - 1)
       IN shorter \cup {Append(w, x) : w \in shorter, x \in S}

\* Outcomes of a call whose behaviour is undefined: it happens to do
\* nothing visible, or the process is killed by a memory fault.
UndefinedOutcomes == {"nothing", "crash"}

StopSignals == {"SIGHUP", "SIGINT", "SIGTERM"}
\* the signals the environment sends (SIGHUP and SIGTERM are handled like
\* SIGINT)
Signals == {"SIGINT", "SIGUSR1"}

\* malloc'ed, not yet written instance
FreshInstance ==
  [jclient |-> "uninit", thread |-> "uninit", device |-> 0,
   blocks_per_transfer |-> 0, quality |-> 0, priority |-> 0]
NoWorker == [life |-> "none", pending |-> FALSE]

VARIABLES
  bound,        \* the exploration's limits: [args, optargs, devices, signals]
  pc,           \* position of the main thread
  optind,       \* number of options getopt_long has returned
  given,        \* bag of the option letters parsed so far
  opt,          \* the option letter getopt_long returned last
  optarg,       \* its argument: {} for none, else a one-element set
  vflg, lflg, dflg, bflg, pflg, nflg, errflg,
  device_num, device_name, blocks_per_transfer, quality, priority,
  errno, debug_level,
  exit_status,  \* the process's exit status once pc = "exited"
  usb,          \* device-bus accesses made so far and how they ended
  instance_count,
  instances,    \* the global pointer: "NULL" or "TABLE"
  heap,         \* the table's memory: "none", "alloc" or "freed"
  table,        \* the instances of the table
  workers,      \* lifecycle of the worker of each instance
  idx,          \* loop index of run_all (1-based)
  device,       \* run_single's device, as a position of the attached list
  err,          \* run_single's err
  handlers,     \* per thread, the stack of running signal_handler calls
  nsignals,     \* signals delivered so far
  fault         \* what killed the process: kind "none", "join" or
                \* "handler", and the thread it happened on

parse_vars ==
  <<optind, given, opt, optarg, vflg, lflg, dflg, bflg, pflg, nflg, errflg,
    device_num, device_name, blocks_per_transfer, quality, priority, errno,
    debug_level>>
table_vars == <<instance_count, instances, heap, table>>
sig_vars == <<handlers, nsignals>>

vars ==
  <<bound, pc, parse_vars, exit_status, usb, table_vars, workers, idx, device,
    err, sig_vars, fault>>

Alive == pc # "exited" /\ fault.kind = "none"
Threads == 0..bound.devices
\* A thread that is running signal_handler does nothing else meanwhile.
Blocked(t) == handlers[t] # <<>>
MainAt(p) == Alive /\ pc = p /\ ~Blocked(0)
Live(w) == workers[w].life \in {"running", "stopping"}
\* every worker of the run has been given its thread: the join phase
Spawned == pc \in {"rs_join", "ra_join"}

InitMain ==
  /\ pc = "getopt"
  /\ optind = 0
  /\ given = EmptyBag
  /\ opt = "-1"
  /\ optarg = {}
  /\ vflg = 0 /\ lflg = 0 /\ dflg = 0 /\ bflg = 0 /\ pflg = 0 /\ nflg = 0
  /\ errflg = 0
  /\ device_num = -1
  /\ device_name = "NULL"
  /\ blocks_per_transfer = DEFAULT_BLOCKS
  /\ quality = DEFAULT_QUALITY
  /\ priority = DEFAULT_PRIORITY
  /\ errno = 0
  /\ debug_level = 0
  /\ exit_status = -1
  /\ usb = {}
  /\ instance_count = 0
  /\ instances = "NULL"
  /\ heap = "none"
  /\ table = <<>>
  /\ workers = <<>>
  /\ idx = 0
  /\ device = 0
  /\ err = OW_OK
  /\ nsignals = 0
  /\ fault = [kind |-> "none", thread |-> 0]

Init ==
  /\ bound = [args |-> RunArgs, optargs |-> RunOptArgs,
              devices |-> MaxDevices, signals |-> MaxSignals]
  /\ handlers = [t \in 0..MaxDevices |-> <<>>]
  /\ InitMain

InitCli ==
  /\ bound = [args |-> MaxArgs, optargs |-> OptArgs,
              devices |-> CliDevices, signals |-> CliSignals]
  /\ handlers = [t \in 0..CliDevices |-> <<>>]
  /\ InitMain

(***************************************************************************)
(* main: the getopt_long loop, one action per case of the switch.          *)
(***************************************************************************)
Getopt(letter) ==
  /\ MainAt("getopt")
  /\ optind < bound.args
  /\ optind' = optind + 1
  /\ opt' = letter
  /\ given' = given (+) SetToBag({letter})

OptN ==
  /\ Getopt("n")
  /\ \E a \in DeviceNumArgs :
       LET conv == strtol(a, errno)
       IN /\ device_num' = IntCast(conv)
          /\ errno' = conv.errno
          /\ optarg' = {a}
  /\ nflg' = nflg + 1
  /\ UNCHANGED <<bound, pc, vflg, lflg, dflg, bflg, pflg, errflg,
                 device_name, blocks_per_transfer, quality, priority,
                 debug_level, exit_status, usb, table_vars, workers, idx, device, err,
                 sig_vars, fault>>

OptD ==
  /\ Getopt("d")
  /\ \E a \in DeviceNames : device_name' = a /\ optarg' = {[name |-> a]}
  /\ dflg' = dflg + 1
  /\ UNCHANGED <<bound, pc, vflg, lflg, nflg, bflg, pflg, errflg,
                 device_num, blocks_per_transfer, quality, priority, errno,
                 debug_level, exit_status, usb, table_vars, workers, idx, device, err,
                 sig_vars, fault>>

OptQ ==
  /\ Getopt("q")
  /\ \E a \in bound.optargs :
       /\ quality' = ParseQuality(a, errno)
       /\ errno' = strtol(a, errno).errno
       /\ optarg' = {a}
  /\ UNCHANGED <<bound, pc, vflg, lflg, dflg, nflg, bflg, pflg, errflg,
                 device_num, device_name, blocks_per_transfer, priority,
                 debug_level, exit_status, usb, table_vars, workers, idx, device, err,
                 sig_vars, fault>>

OptB ==
  /\ Getopt("b")
  /\ \E a \in bound.optargs :
       /\ blocks_per_transfer' = ParseBlocks(a, errno)
       /\ errno' = strtol(a, errno).errno
       /\ optarg' = {a}
  /\ bflg' = bflg + 1
  /\ UNCHANGED <<bound, pc, vflg, lflg, dflg, nflg, pflg, errflg, device_num,
                 device_name, quality, priority, debug_level, exit_status,
                 usb, table_vars, workers, idx, device, err, sig_vars, fault>>

OptP ==
  /\ Getopt("p")
  /\ \E a \in bound.optargs :
       /\ priority' = ParsePriority(a, errno)
       /\ errno' = strtol(a, errno).errno
       /\ optarg' = {a}
  /\ pflg' = pflg + 1
  /\ UNCHANGED <<bound, pc, vflg, lflg, dflg, nflg, bflg, errflg, device_num,
                 device_name, blocks_per_transfer, quality, debug_level,
                 exit_status, usb, table_vars, workers, idx, device, err, sig_vars, fault>>

OptL ==
  /\ Getopt("l")
  /\ optarg' = {}
  /\ lflg' = lflg + 1
  /\ UNCHANGED <<bound, pc, vflg, dflg, nflg, bflg, pflg, errflg,
                 device_num, device_name, blocks_per_transfer, quality,
                 priority, errno, debug_level, exit_status, usb, table_vars,
                 workers, idx, device, err, sig_vars, fault>>

OptV ==
  /\ Getopt("v")
  /\ optarg' = {}
  /\ vflg' = vflg + 1
  /\ UNCHANGED <<bound, pc, lflg, dflg, nflg, bflg, pflg, errflg,
                 device_num, device_name, blocks_per_transfer, quality,
                 priority, errno, debug_level, exit_status, usb, table_vars,
                 workers, idx, device, err, sig_vars, fault>>

HelpStatus_Failure == EXIT_FAILURE

\* case 'h': print_help and exit (EXIT_SUCCESS), inside the loop
HelpStatus == EXIT_SUCCESS

OptH ==
  /\ Getopt("h")
  /\ optarg' = {}
  /\ pc' = "exited"
  /\ exit_status' = HelpStatus
  /\ UNCHANGED <<bound, vflg, lflg, dflg, nflg, bflg, pflg,
                 errflg, device_num, device_name, blocks_per_transfer,
                 quality, priority, errno, debug_level, usb, table_vars,
                 workers, idx, device, err, sig_vars, fault>>

\* case '?': an option getopt_long does not know, or a missing argument
OptUnknown ==
  /\ Getopt("?")
  /\ optarg' = {}
  /\ errflg' = errflg + 1
  /\ UNCHANGED <<bound, pc, vflg, lflg, dflg, nflg, bflg, pflg,
                 device_num, device_name, blocks_per_transfer, quality,
                 priority, errno, debug_level, exit_status, usb, table_vars,
                 workers, idx, device, err, sig_vars, fault>>

\* getopt_long returns -1
GetoptEnd ==
  /\ MainAt("getopt")
  /\ opt' = "-1"
  /\ pc' = "validate"
  /\ UNCHANGED <<bound, optind, given, optarg, vflg, lflg, dflg, bflg, pflg,
                 nflg, errflg, device_num, device_name, blocks_per_transfer,
                 quality, priority, errno, debug_level, exit_status, usb, table_vars, workers,
                 idx, device, err, sig_vars, fault>>

(***************************************************************************)
(* main after the loop: usage error, verbosity, list-devices, duplicate    *)
(* checks, and the choice of run_all or run_single.                        *)
(***************************************************************************)
ListStatus_AlwaysSuccess(ow_err) == EXIT_SUCCESS

\* if (lflg): exit status after print_devices returned ow_err
ListStatus(ow_err) == IF ow_err # OW_OK THEN EXIT_FAILURE ELSE EXIT_SUCCESS

Validate ==
  /\ MainAt("validate")
  /\ LET what == AfterGetopt(errflg, lflg, bflg, pflg, nflg, dflg)
     IN /\ debug_level' = IF what # "usage" /\ vflg # 0 THEN vflg
                          ELSE debug_level
        /\ IF what = "list"
             THEN \E ow_err \in {OW_OK} \cup OwErrors :
                    /\ usb' = usb \cup {IF ow_err = OW_OK THEN "list_ok"
                                        ELSE "list_error"}
                    /\ exit_status' = ListStatus(ow_err)
                    /\ pc' = "exited"
           ELSE IF what \in {"run_all", "run_single"}
             THEN /\ pc' = what
                  /\ UNCHANGED <<exit_status, usb>>
           ELSE /\ pc' = "exited"
                /\ exit_status' = EXIT_FAILURE
                /\ UNCHANGED usb
  /\ UNCHANGED <<bound, optind, given, opt, optarg, vflg, lflg, dflg, bflg,
                 pflg, nflg, errflg, device_num, device_name,
                 blocks_per_transfer, quality, priority, errno, table_vars,
                 workers, idx, device, err, sig_vars, fault>>

(***************************************************************************)
(* Workers.  jclient_init, jclient_run_thread and jclient_exit belong to   *)
(* the bridging worker; they are modelled by their contract: a worker is   *)
(* ready after a successful init, running once its thread is created,      *)
(* stopping after a stop request, terminated when its thread ends, joined  *)
(* once pthread_join has returned for it, and killed if the process dies   *)
(* under it.                                                               *)
(***************************************************************************)
Configured(ok, dev) ==
  [jclient |-> IF ok THEN "ok" ELSE "failed", thread |-> "uninit",
   device |-> dev, blocks_per_transfer |-> blocks_per_transfer,
   quality |-> quality, priority |-> priority]

jclient_init(w, ok) ==
  [workers EXCEPT ![w].life = IF ok THEN "ready" ELSE "none"]

\* a stop request made before the thread runs may or may not survive the
\* worker's start
pthread_create(w, kept) ==
  [workers EXCEPT ![w] = [life |-> IF @.pending /\ kept THEN "stopping"
                                   ELSE "running",
                          pending |-> FALSE]]

jclient_exit(w) ==
  [workers EXCEPT ![w] =
     IF @.life = "running" THEN [@ EXCEPT !.life = "stopping"]
     ELSE IF @.life = "ready" THEN [@ EXCEPT !.pending = TRUE]
     ELSE @]

\* the process is killed: every thread ends with it
Killed ==
  [w \in DOMAIN workers |->
     IF Live(w) THEN [workers[w] EXCEPT !.life = "killed"] ELSE workers[w]]

WorkerFinish(w) ==
  /\ Alive /\ ~Blocked(w)
  /\ workers[w].life = "running"
  /\ workers' = [workers EXCEPT ![w].life = "terminated"]
  /\ UNCHANGED <<bound, pc, parse_vars, exit_status, usb, table_vars, idx,
                 device, err, sig_vars, fault>>

WorkerStop(w) ==
  /\ Alive /\ ~Blocked(w)
  /\ workers[w].life = "stopping"
  /\ workers' = [workers EXCEPT ![w].life = "terminated"]
  /\ UNCHANGED <<bound, pc, parse_vars, exit_status, usb, table_vars, idx,
                 device, err, sig_vars, fault>>

(***************************************************************************)
(* run_single                                                              *)
(***************************************************************************)
\* where run_single goes after jclient_init, and the err it carries
SingleAfterInit(ok) == IF ok THEN "rs_create" ELSE "rs_end"
SingleErr_Forgotten(ok) == OW_OK
SingleErr(ok) == IF ok THEN OW_OK ELSE OW_GENERIC_ERROR

SingleAfterLookup_Ignored(failed) == "rs_count"

\* if (ow_get_usb_device_from_device_attrs (...)) return OW_GENERIC_ERROR;
\* failed says the call returned non-zero
SingleAfterLookup(failed) == IF failed THEN "exited" ELSE "rs_count"

RunSingleLookup ==
  /\ MainAt("run_single")
  /\ \E world \in SeqsUpTo(DeviceNames, bound.devices), bus_ok \in BOOLEAN :
       LET d == IF bus_ok
                  THEN ow_get_usb_device_from_device_attrs(world, device_num,
                                                           device_name)
                ELSE 0
           to == SingleAfterLookup(d = 0)
       IN /\ pc' = to
          /\ usb' = usb \cup {IF ~bus_ok THEN "lookup_error"
                              ELSE IF d = 0 THEN "lookup_failed"
                              ELSE "lookup_ok"}
          /\ exit_status' = IF to = "exited" THEN OW_GENERIC_ERROR
                            ELSE exit_status
          /\ device' = d
  /\ UNCHANGED <<bound, parse_vars, table_vars, workers, idx, err, sig_vars,
                 fault>>

RunSingleCount ==
  /\ MainAt("rs_count")
  /\ instance_count' = 1
  /\ pc' = "rs_malloc"
  /\ UNCHANGED <<bound, parse_vars, exit_status, usb, instances, heap, table,
                 workers, idx, device, err, sig_vars, fault>>

RunSingleMalloc ==
  /\ MainAt("rs_malloc")
  /\ instances' = "TABLE"
  /\ heap' = "alloc"
  /\ table' = <<FreshInstance>>
  /\ workers' = <<NoWorker>>
  /\ pc' = "rs_init"
  /\ UNCHANGED <<bound, parse_vars, exit_status, usb, instance_count, idx,
                 device, err, sig_vars, fault>>

RunSingleInit ==
  /\ MainAt("rs_init")
  /\ \E ok \in BOOLEAN :
       /\ table' = [table EXCEPT ![1] = Configured(ok, device)]
       /\ workers' = jclient_init(1, ok)
       /\ err' = SingleErr(ok)
       /\ pc' = SingleAfterInit(ok)
  /\ UNCHANGED <<bound, parse_vars, exit_status, usb, instance_count,
                 instances, heap, idx, device, sig_vars, fault>>

RunSingleCreate ==
  /\ MainAt("rs_create")
  /\ table' = [table EXCEPT ![1].thread = "created"]
  /\ \E kept \in BOOLEAN : workers' = pthread_create(1, kept)
  /\ pc' = "rs_join"
  /\ UNCHANGED <<bound, parse_vars, exit_status, usb, instance_count,
                 instances, heap, idx, device, err, sig_vars, fault>>

RunSingleJoin ==
  /\ MainAt("rs_join")
  /\ workers[1].life = "terminated"
  /\ workers' = [workers EXCEPT ![1].life = "joined"]
  /\ pc' = "rs_end"
  /\ UNCHANGED <<bound, parse_vars, exit_status, usb, table_vars, idx,
                 device, err, sig_vars, fault>>

RunSingleFree ==
  /\ MainAt("rs_end")
  /\ heap' = "freed"
  /\ pc' = "rs_return"
  /\ UNCHANGED <<bound, parse_vars, exit_status, usb, instance_count,
                 instances, table, workers, idx, device, err, sig_vars, fault>>

RunSingleReturn ==
  /\ MainAt("rs_return")
  /\ pc' = "exited"
  /\ exit_status' = err
  /\ UNCHANGED <<bound, parse_vars, usb, table_vars, workers, idx, device,
                 err, sig_vars, fault>>

(***************************************************************************)
(* run_all                                                                 *)
(***************************************************************************)
\* where run_all goes after jclient_init: create the thread, or continue
AllAfterInit(ok) == IF ok THEN "ra_create" ELSE "ra_loop"
\* what run_all returns after the join loop
AllStatus == OW_OK

\* i++, instance++ of the spawn loop and of the join loop
NextInstance_Skipping(i) == i + 2
NextInstance(i) == i + 1

\* the join loop's condition, i < instance_count (i counted from 1 here)
JoinContinues_FirstOnly(i) == i <= 1 /\ i <= instance_count
JoinContinues(i) == i <= instance_count

\* if (err) return err;
AllAfterGetDevices(e) == IF e # OW_OK THEN "exited" ELSE "ra_malloc"

\* ow_get_devices (&devices, &instance_count): an error, or the n attached
\* devices
RunAllGetDevices ==
  /\ MainAt("run_all")
  /\ \E e \in {OW_OK} \cup OwErrors :
       \E n \in IF e = OW_OK THEN 0..bound.devices ELSE {instance_count} :
         LET to == AllAfterGetDevices(e)
         IN /\ pc' = to
            /\ exit_status' = IF to = "exited" THEN e ELSE exit_status
            /\ instance_count' = n
            /\ usb' = usb \cup {IF e = OW_OK THEN "enum_ok" ELSE "enum_error"}
  /\ UNCHANGED <<bound, parse_vars, instances, heap, table, workers, idx,
                 device, err, sig_vars, fault>>

RunAllMalloc ==
  /\ MainAt("ra_malloc")
  /\ instances' = "TABLE"
  /\ heap' = "alloc"
  /\ table' = [k \in 1..instance_count |-> FreshInstance]
  /\ workers' = [k \in 1..instance_count |-> NoWorker]
  /\ idx' = 1
  /\ pc' = "ra_loop"
  /\ UNCHANGED <<bound, parse_vars, exit_status, usb, instance_count, device,
                 err, sig_vars, fault>>

\* variant that drops a device whose jclient_init failed: the count shrinks
\* and the entry is used again for the next device
RunAllInit_Shrinking ==
  /\ MainAt("ra_loop")
  /\ idx <= instance_count
  /\ \E ok \in BOOLEAN :
       /\ table' = [table EXCEPT ![idx] = Configured(ok, idx)]
       /\ workers' = jclient_init(idx, ok)
       /\ pc' = AllAfterInit(ok)
       /\ idx' = idx
       /\ instance_count' = IF ok THEN instance_count ELSE instance_count - 1
  /\ UNCHANGED <<bound, parse_vars, exit_status, usb, instances, heap, device,
                 err, sig_vars, fault>>

RunAllInit ==
  /\ MainAt("ra_loop")
  /\ idx <= instance_count
  /\ \E ok \in BOOLEAN :
       /\ table' = [table EXCEPT ![idx] = Configured(ok, idx)]
       /\ workers' = jclient_init(idx, ok)
       /\ pc' = AllAfterInit(ok)
       /\ idx' = IF AllAfterInit(ok) = "ra_loop" THEN NextInstance(idx)
                 ELSE idx
  /\ UNCHANGED <<bound, parse_vars, exit_status, usb, instance_count,
                 instances, heap, device, err, sig_vars, fault>>

RunAllCreate ==
  /\ MainAt("ra_create")
  /\ table' = [table EXCEPT ![idx].thread = "created"]
  /\ \E kept \in BOOLEAN : workers' = pthread_create(idx, kept)
  /\ idx' = NextInstance(idx)
  /\ pc' = "ra_loop"
  /\ UNCHANGED <<bound, parse_vars, exit_status, usb, instance_count,
                 instances, heap, device, err, sig_vars, fault>>

\* the spawn loop ends: ow_free_usb_device_list, instance = instances
RunAllSpawned ==
  /\ MainAt("ra_loop")
  /\ idx > instance_count
  /\ idx' = 1
  /\ pc' = "ra_join"
  /\ UNCHANGED <<bound, parse_vars, exit_status, usb, table_vars, workers,
                 device, err, sig_vars, fault>>

\* pthread_join (instance->thread, NULL) on every instance of the table; the
\* thread of an instance whose jclient_init failed was never written
RunAllJoin ==
  /\ MainAt("ra_join")
  /\ JoinContinues(idx)
  /\ IF table[idx].thread = "created"
       THEN /\ workers[idx].life = "terminated"
            /\ workers' = [workers EXCEPT ![idx].life = "joined"]
            /\ idx' = NextInstance(idx)
            /\ UNCHANGED fault
     ELSE \E outcome \in UndefinedOutcomes :
            IF outcome = "crash"
              THEN /\ fault' = [kind |-> "join", thread |-> 0]
                   /\ workers' = Killed
                   /\ UNCHANGED idx
            ELSE /\ idx' = NextInstance(idx)
                 /\ UNCHANGED <<workers, fault>>
  /\ UNCHANGED <<bound, pc, parse_vars, exit_status, usb, table_vars, device,
                 err, sig_vars>>

RunAllFree ==
  /\ MainAt("ra_join")
  /\ ~JoinContinues(idx)
  /\ heap' = "freed"
  /\ pc' = "ra_return"
  /\ UNCHANGED <<bound, parse_vars, exit_status, usb, instance_count,
                 instances, table, workers, idx, device, err, sig_vars, fault>>

RunAllReturn ==
  /\ MainAt("ra_return")
  /\ pc' = "exited"
  /\ exit_status' = AllStatus
  /\ UNCHANGED <<bound, parse_vars, usb, table_vars, workers, idx, device,
                 err, sig_vars, fault>>

(***************************************************************************)
(* signal_handler.  A signal is delivered to any thread of the process     *)
(* that is not already handling that signal (sa_mask is empty, so other    *)
(* signals nest).  Each call reads instances once and instance_count at    *)
(* every iteration.                                                        *)
(***************************************************************************)
ThreadExists(t) == t = 0 \/ (t \in DOMAIN workers /\ Live(t))
Handling(t) == {handlers[t][k].signo : k \in 1..Len(handlers[t])}

\* the handler's loop condition, i < instance_count (i counted from 1 here)
HandlerContinues(i) == i <= instance_count

\* the instance the handler reaches at position i is a worker that
\* jclient_init has set up, in memory that is still allocated
Initialised(ptr, i) ==
  /\ ptr = "TABLE"
  /\ heap = "alloc"
  /\ i \in DOMAIN table
  /\ table[i].jclient = "ok"

Deliver(signo, t) ==
  /\ Alive
  /\ nsignals < bound.signals
  /\ ThreadExists(t)
  /\ signo \notin Handling(t)
  /\ nsignals' = nsignals + 1
  /\ handlers' = [handlers EXCEPT ![t] =
       <<[signo |-> signo, instance |-> instances, i |-> 1,
          armed |-> Spawned, sent |-> <<>>]>> \o @]
  /\ UNCHANGED <<bound, pc, parse_vars, exit_status, usb, table_vars, workers,
                 idx, device, err, fault>>

HandlerStep(t) ==
  /\ Alive
  /\ Blocked(t)
  /\ LET f == Head(handlers[t])
         g == [f EXCEPT !.i = f.i + 1, !.sent = Append(f.sent, f.i)]
     IN IF HandlerContinues(f.i)
          THEN IF Initialised(f.instance, f.i)
                 THEN /\ workers' = IF f.signo \in StopSignals
                                      THEN jclient_exit(f.i)
                                    ELSE workers
                      /\ handlers' = [handlers EXCEPT ![t] = <<g>> \o Tail(@)]
                      /\ UNCHANGED fault
               ELSE \E outcome \in UndefinedOutcomes :
                      IF outcome = "crash"
                        THEN /\ fault' = [kind |-> "handler", thread |-> t]
                             /\ workers' = Killed
                             /\ UNCHANGED handlers
                      ELSE /\ handlers' =
                                [handlers EXCEPT ![t] = <<g>> \o Tail(@)]
                           /\ UNCHANGED <<workers, fault>>
        ELSE /\ handlers' = [handlers EXCEPT ![t] = Tail(@)]
             /\ UNCHANGED <<workers, fault>>
  /\ UNCHANGED <<bound, pc, parse_vars, exit_status, usb, table_vars, idx, device,
                 err, nsignals>>

Next ==
  \/ OptN \/ OptD \/ OptQ \/ OptB \/ OptP \/ OptL \/ OptV \/ OptH
  \/ OptUnknown \/ GetoptEnd
  \/ Validate
  \/ RunSingleLookup \/ RunSingleCount \/ RunSingleMalloc \/ RunSingleInit
  \/ RunSingleCreate \/ RunSingleJoin \/ RunSingleFree \/ RunSingleReturn
  \/ RunAllGetDevices \/ RunAllMalloc \/ RunAllInit \/ RunAllCreate
  \/ RunAllSpawned \/ RunAllJoin \/ RunAllFree \/ RunAllReturn
  \/ \E w \in DOMAIN workers : WorkerFinish(w) \/ WorkerStop(w)
  \/ \E signo \in Signals, t \in Threads : Deliver(signo, t)
  \/ \E t \in Threads : HandlerStep(t)

Spec == Init /\ [][Next]_vars
SpecCli == InitCli /\ [][Next]_vars

(***************************************************************************)
(* Scheduling.  The main thread and every thread that is inside            *)
(* signal_handler keep being scheduled, and a worker that has been asked   *)
(* to stop ends its thread.  Nothing makes a signal arrive, and nothing    *)
(* makes a worker that was not asked to stop finish.                       *)
(***************************************************************************)
MainStep ==
  \/ OptN \/ OptD \/ OptQ \/ OptB \/ OptP \/ OptL \/ OptV \/ OptH
  \/ OptUnknown \/ GetoptEnd
  \/ Validate
  \/ RunSingleLookup \/ RunSingleCount \/ RunSingleMalloc \/ RunSingleInit
  \/ RunSingleCreate \/ RunSingleJoin \/ RunSingleFree \/ RunSingleReturn
  \/ RunAllGetDevices \/ RunAllMalloc \/ RunAllInit \/ RunAllCreate
  \/ RunAllSpawned \/ RunAllJoin \/ RunAllFree \/ RunAllReturn

StopStep(w) == w \in DOMAIN workers /\ WorkerStop(w)

Fairness ==
  /\ WF_vars(MainStep)
  /\ \A t \in 0..MaxDevices : WF_vars(HandlerStep(t))
  /\ \A w \in 1..MaxDevices : WF_vars(StopStep(w))

SpecLive == Init /\ [][Next]_vars /\ Fairness
(***************************************************************************)
(* Properties                                                              *)
(***************************************************************************)
Ended == ~Alive
ExitedWith(status) == pc = "exited" /\ exit_status = status
\* the process ended otherwise than by exiting with status 0
Failed == Ended /\ ~ExitedWith(EXIT_SUCCESS)
Parsed(letter) == CopiesIn(letter, given) > 0
Occurrences(w, sent) == Cardinality({k \in 1..Len(sent) : sent[k] = w})
FleetMode == "enum_ok" \in usb
SingleMode == "lookup_ok" \in usb
NoWorkerTouched ==
  /\ instance_count = 0 /\ instances = "NULL" /\ heap = "none"
  /\ table = <<>> /\ workers = <<>>

\* the step ends a signal_handler call on thread t: it returns, or the
\* process dies in it
EndsCall(t) ==
  /\ Blocked(t)
  /\ \/ handlers'[t] = Tail(handlers[t])
     \/ fault.kind = "none" /\ fault' = [kind |-> "handler", thread |-> t]

\* C1: whenever a signal_handler call for a termination signal that began
\* with every worker spawned ends, each worker that is still live has been
\* passed to jclient_exit exactly once by that call.
C1_StopReachesEveryLiveWorker ==
  [][\A t \in Threads :
       (/\ EndsCall(t)
        /\ Head(handlers[t]).signo \in StopSignals
        /\ Head(handlers[t]).armed)
       => \A w \in DOMAIN workers :
            Live(w) => Occurrences(w, Head(handlers[t]).sent) = 1]_vars

\* C2: a fleet run that no signal disturbs starts the thread of every
\* device whose jclient_init succeeded and ends by exiting with success.
C2_FleetRunSucceeds ==
  (FleetMode /\ nsignals = 0)
  => /\ \A k \in DOMAIN table :
          (table[k].jclient = "ok" /\ (pc # "ra_create" \/ idx # k))
          => table[k].thread = "created"
     /\ Ended => ExitedWith(EXIT_SUCCESS)

\* C3: in single-device mode a failed jclient_init leaves the thread
\* uncreated and unjoined, and the process never ends with success.
C3_SingleInitFailure ==
  (SingleMode /\ heap # "none" /\ table[1].jclient = "failed")
  => /\ table[1].thread = "uninit"
     /\ workers[1].life = "none"
     /\ pc \notin {"rs_create", "rs_join"}
     /\ Ended => Failed

C3_Witness ==
  /\ SingleMode /\ heap = "freed" /\ table[1].jclient = "failed"
  /\ ExitedWith(OW_GENERIC_ERROR)

\* C4: a step of a signal_handler call for SIGUSR1 changes no worker's
\* lifecycle, nothing of the instance table and nothing of the main thread's
\* progress.
C4_StatusSignalChangesNothing ==
  [][\A t \in Threads :
       (HandlerStep(t) /\ Head(handlers[t]).signo = "SIGUSR1")
       => UNCHANGED <<workers, table_vars, pc, idx>>]_vars

\* C5 as stated: once both -n and -d have been parsed and no -h, no device has
\* been touched and the process can only end in failure.
C5_Original ==
  (nflg > 0 /\ dflg > 0 /\ ~Parsed("h"))
  => /\ usb = {}
     /\ NoWorkerTouched
     /\ Ended => Failed

\* C5: once both -n and -d have been parsed, and neither -h nor -l, no device
\* has been touched and the process can only end in failure.
C5_AmbiguousSelectionFails ==
  (nflg > 0 /\ dflg > 0 /\ ~Parsed("h") /\ ~Parsed("l"))
  => /\ usb = {}
     /\ NoWorkerTouched
     /\ Ended => Failed

C5_Witness ==
  /\ nflg = 1 /\ dflg = 1 /\ given = SetToBag({"n", "d"})
  /\ ExitedWith(EXIT_FAILURE) /\ usb = {}

\* the option argument is a well-formed integer within lo..hi
WellFormedIn(a, lo, hi) ==
  a.digits /\ ~a.rest /\ a.over = "no" /\ a.hi = 0 /\ a.lo >= lo /\ a.lo <= hi

\* C6: right after -q, -b or -p is parsed with an argument that is not a
\* well-formed integer of its range the variable holds its default; every
\* configuration written into an instance is within the ranges; and a run
\* whose options are only -q, -b (once) and -p (once) is not aborted by main.
C6_BadValuesGetDefaults ==
  /\ \A a \in optarg :
       /\ (opt = "q" /\ ~WellFormedIn(a, 0, 4)) => quality = DEFAULT_QUALITY
       /\ (opt = "b" /\ ~WellFormedIn(a, 2, 32))
            => blocks_per_transfer = DEFAULT_BLOCKS
       /\ (opt = "p" /\ ~WellFormedIn(a, 0, 99))
            => priority = DEFAULT_PRIORITY
  /\ \A k \in DOMAIN table :
       table[k].jclient # "uninit"
       => /\ table[k].quality \in 0..4
          /\ table[k].blocks_per_transfer \in 2..32
          /\ table[k].priority \in {-1} \cup 0..99
  /\ (BagToSet(given) \subseteq {"q", "b", "p"} /\ bflg <= 1 /\ pflg <= 1)
       => pc \notin {"exited"} \/ usb # {}

\* C7 as stated: once -b or -p has been parsed twice and no -h, no device is
\* enumerated or looked up for bridging, no worker exists and the process can
\* only end in failure.
C7_Original ==
  ((bflg > 1 \/ pflg > 1) /\ ~Parsed("h"))
  => /\ usb \subseteq {"list_ok", "list_error"}
     /\ NoWorkerTouched
     /\ Ended => Failed

\* C7: once -b or -p has been parsed twice, and neither -h nor -l, no device
\* is touched, no worker exists and the process can only end in failure.
C7_DuplicateOptionFails ==
  ((bflg > 1 \/ pflg > 1) /\ ~Parsed("h") /\ ~Parsed("l"))
  => /\ usb = {}
     /\ NoWorkerTouched
     /\ Ended => Failed

C7_Witness ==
  /\ bflg = 2 /\ errflg = 0 /\ lflg = 0 /\ nflg + dflg = 0
  /\ ExitedWith(EXIT_FAILURE) /\ usb = {}

\* C8: when the explicit selection resolves to no device, or the device bus
\* cannot be enumerated, the process has exited with a non-zero status and
\* no instance, worker or thread was ever made.
C8_ResolutionFailureAborts ==
  (usb \cap {"lookup_failed", "lookup_error", "enum_error"} # {})
  => /\ pc = "exited" /\ exit_status # EXIT_SUCCESS
     /\ NoWorkerTouched

C8_Witness ==
  /\ nflg = 1 /\ device_num = 5 /\ "lookup_failed" \in usb
  /\ ExitedWith(OW_GENERIC_ERROR)

\* C9: once -l has been parsed no instance table or worker is ever made, and
\* if neither -h nor an unknown option was parsed the process can only end
\* after print_devices, with success if it succeeded and failure if not.
C9_ListDevicesShortCircuits ==
  Parsed("l")
  => /\ NoWorkerTouched
     /\ usb \subseteq {"list_ok", "list_error"}
     /\ (Ended /\ ~Parsed("h") /\ errflg = 0)
          => \/ usb = {"list_ok"} /\ ExitedWith(EXIT_SUCCESS)
             \/ usb = {"list_error"} /\ ExitedWith(EXIT_FAILURE)

C9_Witness ==
  /\ Parsed("l") /\ bflg = 2 /\ usb = {"list_ok"} /\ ExitedWith(EXIT_SUCCESS)

\* C10: once -h has been parsed the process has exited with success, having
\* touched no device and made no worker, whatever was parsed before it.
C10_HelpBypassesValidation ==
  Parsed("h")
  => /\ ExitedWith(EXIT_SUCCESS)
     /\ usb = {}
     /\ NoWorkerTouched

C10_Witness ==
  /\ Parsed("h") /\ nflg = 1 /\ dflg = 1 /\ ExitedWith(EXIT_SUCCESS)

\* the step is an iteration of signal_handler's loop on thread t that reaches
\* an entry of the table
Visits(t) == HandlerStep(t) /\ HandlerContinues(Head(handlers[t]).i)

\* C11: whenever signal_handler reaches an entry, at whatever point of the
\* run the signal arrived, the entry is an instance of the allocated table
\* whose jclient_init has succeeded.
C11_HandlerVisitsOnlyPopulated ==
  [][\A t \in Threads :
       Visits(t) => Initialised(Head(handlers[t]).instance,
                                Head(handlers[t]).i)]_vars

\* C12: once the instance table has been freed, no signal_handler call
\* reaches an entry.
C12_NoVisitAfterFree ==
  [][\A t \in Threads : Visits(t) => heap # "freed"]_vars

\* C13: run_all's join loop calls pthread_join only on instances whose
\* thread was created, so never on one whose jclient_init failed.
C13_JoinsOnlyCreatedThreads ==
  [][RunAllJoin => /\ table[idx].thread = "created"
                   /\ table[idx].jclient = "ok"]_vars

\* the table has been freed, or the orchestrator has returned its status
Released == heap = "freed" \/ (pc = "exited" /\ (FleetMode \/ SingleMode))

\* C14: when run_single or run_all has freed the table or returned, every
\* thread that was created has terminated and been joined, and no worker is
\* running.
C14_ReleasedOnlyAfterJoin ==
  Released
  => \A k \in DOMAIN table :
       /\ table[k].thread = "created" => workers[k].life = "joined"
       /\ ~Live(k)

C14_Witness ==
  /\ FleetMode /\ pc = "exited" /\ heap = "freed" /\ instance_count = 2
  /\ \A k \in DOMAIN table :
       table[k].thread = "created" /\ workers[k].life = "joined"

\* a signal_handler call for a termination signal is running that began in
\* the join phase
StopInJoinPhase ==
  \E t \in DOMAIN handlers :
    \E k \in 1..Len(handlers[t]) :
      handlers[t][k].signo \in StopSignals /\ handlers[t][k].armed

\* C15: once a termination signal has been delivered during the join phase,
\* the orchestrator eventually returns its exit status with the table
\* freed and every created thread joined.
C15_ShutdownCompletes ==
  StopInJoinPhase
  ~> (/\ pc = "exited" /\ heap = "freed"
      /\ \A k \in DOMAIN table :
           table[k].thread = "created" => workers[k].life = "joined")

\* C16: run_all initialises the instances and creates their threads in the
\* order of the device list, finishing each before it touches the next, and
\* joins the created threads in that order, whatever order they end in.
C16_StartAndJoinInOrder ==
  (FleetMode /\ heap # "none")
  => /\ \A k \in DOMAIN table :
          table[k].jclient # "uninit" => table[k].device = k
     /\ pc \in {"ra_loop", "ra_create"}
          => \A k \in DOMAIN table :
               /\ k < idx => /\ table[k].jclient # "uninit"
                             /\ table[k].jclient = "ok"
                                  => table[k].thread = "created"
               /\ (k > idx \/ (k = idx /\ pc = "ra_loop"))
                    => table[k] = FreshInstance /\ workers[k] = NoWorker
               /\ (k = idx /\ pc = "ra_create")
                    => table[k].jclient = "ok" /\ table[k].thread = "uninit"
     /\ pc = "ra_join"
          => \A k \in DOMAIN table :
               table[k].thread = "created"
               => (workers[k].life = "joined" <=> k < idx)

\* the second worker has ended before the first, which is the one joined
C16_Witness ==
  /\ FleetMode /\ pc = "ra_join" /\ idx = 1 /\ instance_count = 2
  /\ workers[1].life = "running" /\ workers[2].life = "terminated"

\* C17: from the allocation of the table until it is freed, instance_count,
\* the table pointer, the table's length and the device of every instance
\* that has been set up stay as they are, and the table has instance_count
\* entries; a failed jclient_init removes or moves nothing.
C17_InstanceSetFixed ==
  [][heap = "alloc"
     => /\ Len(table) = instance_count
        /\ instance_count' = instance_count
        /\ instances' = instances
        /\ Len(table') = Len(table)
        /\ \A k \in DOMAIN table :
             table[k].jclient # "uninit"
             => /\ table'[k].device = table[k].device
                /\ table'[k].jclient = table[k].jclient]_vars

\* the first device failed to initialise and the second runs: both keep
\* their entries
C17_Witness ==
  /\ FleetMode /\ pc = "ra_join" /\ instance_count = 2 /\ Len(table) = 2
  /\ table[1].jclient = "failed" /\ table[1].device = 1
  /\ table[2].jclient = "ok" /\ table[2].device = 2 /\ Live(2)

\* C18: a signal_handler call passes no entry twice to jclient_exit or to
\* ow_resampler_report_status, and every call that has begun returns, so
\* that the thread can take the signal again.
C18_DeliveryCompletes ==
  /\ [](\A t \in DOMAIN handlers :
          \A k \in 1..Len(handlers[t]) :
            \A w \in DOMAIN table :
              Occurrences(w, handlers[t][k].sent) <= 1)
  /\ \A t \in 0..MaxDevices : (handlers[t] # <<>>) ~> (handlers[t] = <<>>)

\* main has left the option loop and the checks that follow it
PastDispatch == pc \notin {"getopt", "validate"}
EnteredFleet == pc = "run_all" \/ usb \cap {"enum_ok", "enum_error"} # {}
EnteredSingle ==
  pc = "run_single"
  \/ usb \cap {"lookup_ok", "lookup_failed", "lookup_error"} # {}

\* what the number of -n and -d options parsed decides
ModeFollowsSelections ==
  /\ nflg + dflg = 0 => EnteredFleet /\ ~EnteredSingle
  /\ nflg + dflg = 1 => EnteredSingle /\ ~EnteredFleet
  /\ nflg + dflg >= 2
       => ExitedWith(EXIT_FAILURE) /\ usb = {} /\ NoWorkerTouched

\* C19 as stated: once main is past its checks, run_all was entered if no
\* -n or -d was parsed, run_single if exactly one was, and with two or more
\* the process has exited with failure and made no worker.
C19_Original == PastDispatch => ModeFollowsSelections

\* C19: the same, for command lines with no -h, no unknown option, no -l
\* and neither -b nor -p given twice.
C19_ModeBySelectionCount ==
  (/\ PastDispatch
   /\ ~Parsed("h") /\ errflg = 0 /\ lflg = 0 /\ bflg <= 1 /\ pflg <= 1)
  => ModeFollowsSelections

\* the same selection option given twice
C19_Witness ==
  /\ given = SetToBag({"n"}) (+) SetToBag({"n"})
  /\ nflg = 2 /\ dflg = 0 /\ ExitedWith(EXIT_FAILURE) /\ NoWorkerTouched

====
